---------------------------- MODULE Spec2Model ----------------------------
(***************************************************************************)
(* Model of digi/xbee/packets/devicecloud.py: the six device-cloud frame   *)
(* kinds (DeviceRequest, DeviceResponse, DeviceResponseStatus, FrameError, *)
(* SendDataRequest, SendDataResponse), their constructors, accessors,      *)
(* encoders (_get_api_packet_spec_data / output) and decoders              *)
(* (create_packet).                                                        *)
(*                                                                         *)
(* Values.  A byte is an integer 0..255 and a bytearray a sequence of      *)
(* bytes.  A str is a sequence of Unicode code points, so Len(s) is what   *)
(* Python's len(s) returns and Utf8Encode(s) what bytearray(s, "utf8")     *)
(* returns.  None is the empty tuple and a present value x is <<x>>.       *)
(* A bytearray is a mutable object: packets and callers hold references    *)
(* (indices into heap), and two holders of one reference see each other's  *)
(* writes.                                                                 *)
(***************************************************************************)
EXTENDS Integers, Sequences, FiniteSets, Bags, TLC

VARIABLES
    heap,   \* heap[i]: the content of bytearray object i (objects are never freed)
    pkts,   \* pkts[s]: the packet object in slot s, or NoPacket
    hold,   \* references to bytearrays the caller holds
    got,    \* <<oid, ref>>: ref was returned by a payload getter of packet oid
    raw,    \* the frame last produced by output() or handed to create_packet
    src,    \* where raw comes from: output() of a slot's packet, or the caller
    last    \* what the last operation was and how it ended

vars == <<heap, pkts, hold, got, raw, src, last>>

-----------------------------------------------------------------------------
(* Optional values *)

None == <<>>

Some(x) == <<x>>

IsNone(o) == o = <<>>

Val(o) == o[1]

-----------------------------------------------------------------------------
(* Bytes, integers and sequences *)

Byte == 0..255

Max(a, b) == IF a >= b THEN a ELSE b

Min(a, b) == IF a <= b THEN a ELSE b

\* Python's seq[lo:hi] for 0 <= lo, 0 <= hi: clamped to the sequence, never an error.
Slice(s, lo, hi) ==
    LET h == Min(hi, Len(s))
    IN  IF lo >= h THEN <<>> ELSE [i \in 1..(h - lo) |-> s[lo + i]]

\* Python's seq[lo:-1] for 0 <= lo.
SliceToLast(s, lo) == Slice(s, lo, Max(Len(s) - 1, 0))

\* sum(s): the bag that holds index i s[i] times has sum(s) elements.
Sum(s) == BagCardinality([i \in {j \in 1..Len(s) : s[j] > 0} |-> s[i]])

\* n copies of x; none when n <= 0.
Repeat(x, n) == [i \in 1..Max(n, 0) |-> x]

\* utils.int_to_bytes(number, num_bytes): big-endian, as many bytes as the number
\* needs, left-padded with zeros up to num_bytes (never cut down to num_bytes).
RECURSIVE IntBytes(_)
IntBytes(number) ==
    IF number < 256 THEN <<number>>
    ELSE IntBytes(number \div 256) \o <<number % 256>>

int_to_bytes(number, num_bytes) ==
    LET b == IntBytes(number)
    IN  Repeat(0, num_bytes - Len(b)) \o b

\* utils.int_to_length(number): the two bytes of the frame's length field.
int_to_length(number) == <<(number \div 256) % 256, number % 256>>

\* utils.length_to_int(byte_array): the value of the frame's length field.
length_to_int(b) == IF Len(b) = 0 THEN 0 ELSE b[1] * 256 + b[2]

-----------------------------------------------------------------------------
(* UTF-8: bytearray(s, encoding="utf8") and bytearray.decode("utf8") *)

IsSurrogate(c) == c >= 55296 /\ c <= 57343

Utf8EncodeChar(c) ==
    IF c < 128 THEN <<c>>
    ELSE IF c < 2048 THEN <<192 + (c \div 64), 128 + (c % 64)>>
    ELSE IF c < 65536 THEN
        <<224 + (c \div 4096), 128 + ((c \div 64) % 64), 128 + (c % 64)>>
    ELSE <<240 + (c \div 262144), 128 + ((c \div 4096) % 64),
           128 + ((c \div 64) % 64), 128 + (c % 64)>>

\* A str with a lone surrogate cannot be encoded (UnicodeEncodeError).
Utf8Encodable(s) == \A i \in 1..Len(s) : ~IsSurrogate(s[i])

\* The encodings of s[lo..hi], in order (by halves).
RECURSIVE Utf8EncodeRange(_, _, _)
Utf8EncodeRange(s, lo, hi) ==
    IF lo > hi THEN <<>>
    ELSE IF lo = hi THEN Utf8EncodeChar(s[lo])
    ELSE LET mid == (lo + hi) \div 2
         IN  Utf8EncodeRange(s, lo, mid) \o Utf8EncodeRange(s, mid + 1, hi)

Utf8Encode(s) == Utf8EncodeRange(s, 1, Len(s))

IsCont(b) == b >= 128 /\ b <= 191

\* The number of bytes of the well-formed sequence starting at b[i], 0 if none
\* (strict decoding: no overlong forms, no surrogates, nothing past U+10FFFF).
Utf8SeqLen(b, i) ==
    LET n  == Len(b)
        b0 == b[i]
        c1 == IF i + 1 <= n THEN b[i + 1] ELSE 0
        c2 == IF i + 2 <= n THEN b[i + 2] ELSE 0
        c3 == IF i + 3 <= n THEN b[i + 3] ELSE 0
    IN  IF b0 < 128 THEN 1
        ELSE IF b0 >= 194 /\ b0 <= 223 THEN (IF IsCont(c1) THEN 2 ELSE 0)
        ELSE IF b0 >= 224 /\ b0 <= 239 THEN
            (IF /\ IsCont(c1) /\ IsCont(c2)
                /\ (b0 = 224 => c1 >= 160)
                /\ (b0 = 237 => c1 <= 159)
             THEN 3 ELSE 0)
        ELSE IF b0 >= 240 /\ b0 <= 244 THEN
            (IF /\ IsCont(c1) /\ IsCont(c2) /\ IsCont(c3)
                /\ (b0 = 240 => c1 >= 144)
                /\ (b0 = 244 => c1 <= 143)
             THEN 4 ELSE 0)
        ELSE 0

Utf8CodePoint(b, i, k) ==
    IF k = 1 THEN b[i]
    ELSE IF k = 2 THEN (b[i] - 192) * 64 + (b[i + 1] - 128)
    ELSE IF k = 3 THEN
        (b[i] - 224) * 4096 + (b[i + 1] - 128) * 64 + (b[i + 2] - 128)
    ELSE (b[i] - 240) * 262144 + (b[i + 1] - 128) * 4096
         + (b[i + 2] - 128) * 64 + (b[i + 3] - 128)

\* b is well-formed when it starts with a lead byte, every lead byte starts a
\* well-formed sequence, and that sequence ends at the next lead byte or at the
\* end of b (UTF-8 is self-synchronising: a lead byte is any byte that is not a
\* continuation byte).
Utf8Valid(b) ==
    /\ Len(b) > 0 => ~IsCont(b[1])
    /\ \A i \in 1..Len(b) :
           ~IsCont(b[i]) =>
               LET k == Utf8SeqLen(b, i)
               IN  /\ k > 0
                   /\ i + k <= Len(b) => ~IsCont(b[i + k])

IsCodePoint(x) == x >= 0

\* The code point at each lead byte, in order.
Utf8CodePoints(b) ==
    SelectSeq([i \in 1..Len(b) |->
                  IF IsCont(b[i]) THEN -1
                  ELSE Utf8CodePoint(b, i, Utf8SeqLen(b, i))],
              IsCodePoint)

\* bytes.decode("utf8"): None when it raises UnicodeDecodeError, else <<str>>.
Utf8Decode(b) == IF Utf8Valid(b) THEN Some(Utf8CodePoints(b)) ELSE None

-----------------------------------------------------------------------------
(* Results of operations that may raise *)

Ok(v) == [exc |-> "none", why |-> "", val |-> v]

Raise(e, why) == [exc |-> e, why |-> why, val |-> None]

-----------------------------------------------------------------------------
(* Collaborators: frame types, operating modes, code registries, envelope *)

\* One byte short of the smallest frame the decoder accepts.
DeviceRequestPacket_MIN_PACKET_LENGTH_short == 9 - 1

\* aft.ApiFrameType codes of the six kinds.
ApiFrameType_SEND_DATA_REQUEST == 40

ApiFrameType_DEVICE_RESPONSE == 42

ApiFrameType_SEND_DATA_RESPONSE == 184

ApiFrameType_DEVICE_REQUEST == 185

ApiFrameType_DEVICE_RESPONSE_STATUS == 186

ApiFrameType_FRAME_ERROR == 254

\* SpecialByte.HEADER_BYTE
HEADER_BYTE == 126

\* models.mode.OperatingMode
OperatingMode == {"AT_MODE", "API_MODE", "ESCAPED_API_MODE", "UNKNOWN"}

\* The wire codes the registries know.
DeviceCloudStatusCodes == {0, 1, 2, 3, 32, 33, 64}

FrameErrorCodes == {2, 3, 4, 5, 6, 7, 8}

SendDataRequestOptionsCodes == {0, 1, 2, 3}

\* Registry.decode(code): total; a code the registry does not know is carried
\* by an "unrecognized" symbol that keeps the raw code.
DeviceCloudStatus_get(code) ==
    [code |-> code, known |-> code \in DeviceCloudStatusCodes]

FrameError_get(code) == [code |-> code, known |-> code \in FrameErrorCodes]

SendDataRequestOptions_get(code) ==
    [code |-> code, known |-> code \in SendDataRequestOptionsCodes]

\* Python's raw[k] (0-based) for 0 <= k < len(raw).
At(r, k) == r[k + 1]

\* XBeeAPIPacket._check_api_packet(raw, min_length): "" when the envelope is
\* sound, else why InvalidPacketException is raised.
check_api_packet(r, min_length) ==
    IF Len(r) < min_length THEN "min_length"
    ELSE IF At(r, 0) # HEADER_BYTE THEN "header"
    ELSE IF Len(SliceToLast(r, 3)) # length_to_int(Slice(r, 1, 3)) THEN "length_field"
    ELSE IF 255 - (Sum(SliceToLast(r, 3)) % 256) # At(r, Len(r) - 1) THEN "checksum"
    ELSE ""

\* The call of _check_api_packet: it returns, or raises InvalidPacketException.
Envelope(r, min_length) ==
    LET why == check_api_packet(r, min_length)
    IN  IF why = "" THEN Ok(None) ELSE Raise("InvalidPacketException", why)

\* The test every create_packet makes after the envelope check:
\* raw[3] != ApiFrameType.<KIND>.code
frame_type_differs_skipped(r, code) == FALSE

frame_type_differs(r, code) == At(r, 3) # code

\* XBeeAPIPacket.__init__: the fields every packet has.
XBeeAPIPacket_init(frame_type, op_mode) ==
    [frame_type |-> frame_type, frame_id |-> 0, op_mode |-> op_mode]

\* XBeeAPIPacket.frame_id setter: validates the range before it commits.
XBeeAPIPacket_set_frame_id(p, frame_id) ==
    IF frame_id < 0 \/ frame_id > 255
    THEN Raise("ValueError", "frame_id")
    ELSE Ok([p EXCEPT !.frame_id = frame_id])

\* XBeePacket.output(escaped=False) over get_frame_spec_data(): start marker,
\* two length bytes, frame type, frame id when the kind needs one, the kind's
\* fields, checksum.
frame_spec_data(frame_type, needs_id, frame_id, spec_data) ==
    int_to_bytes(frame_type, 1)
        \o (IF needs_id THEN <<frame_id>> ELSE <<>>)
        \o spec_data

output_frame(fsd) ==
    <<HEADER_BYTE>> \o int_to_length(Len(fsd)) \o fsd \o <<255 - (Sum(fsd) % 256)>>

-----------------------------------------------------------------------------
(* DeviceRequestPacket *)

DeviceRequestPacket_MIN_PACKET_LENGTH == 9

SupportedModes == {"ESCAPED_API_MODE", "API_MODE"}

\* The range test of request_id (constructor line 59, setter line 177).
DeviceRequestPacket_request_id_invalid(request_id) ==
    request_id < 0 \/ request_id > 255

\* The length test left out: every target is taken.
DeviceRequestPacket_target_invalid_never(target) == FALSE

\* The length test of target (constructor line 62, setter line 222): len() of a
\* str counts characters.
DeviceRequestPacket_target_invalid(target) ==
    ~IsNone(target) /\ Len(Val(target)) > 255

\* __init__: request_data is stored as passed (a reference, or None).
DeviceRequestPacket_init(request_id, target, request_data, op_mode) ==
    IF DeviceRequestPacket_request_id_invalid(request_id)
    THEN Raise("ValueError", "request_id")
    ELSE IF DeviceRequestPacket_target_invalid(target)
    THEN Raise("ValueError", "target")
    ELSE Ok([kind |-> "DeviceRequest",
             base |-> XBeeAPIPacket_init(ApiFrameType_DEVICE_REQUEST, op_mode),
             req_id |-> request_id, transport |-> 0, flags |-> 0,
             target |-> target, req_data |-> request_data])

\* create_packet: the arguments it hands to the constructor (request_data by
\* value: a slice is a new bytearray), or the exception it raises.
DeviceRequestPacket_create_packet(r, operating_mode) ==
    IF operating_mode \notin {"ESCAPED_API_MODE", "API_MODE"}
    THEN Raise("InvalidOperatingModeException", "mode")
    ELSE IF Envelope(r, DeviceRequestPacket_MIN_PACKET_LENGTH).exc # "none"
    THEN Envelope(r, DeviceRequestPacket_MIN_PACKET_LENGTH)
    ELSE IF frame_type_differs(r, ApiFrameType_DEVICE_REQUEST)
    THEN Raise("InvalidPacketException", "frame_type")
    ELSE LET target_length == At(r, 7)
             target == Utf8Decode(Slice(r, 8, 8 + target_length))
         IN  IF IsNone(target) THEN Raise("UnicodeDecodeError", "target")
             ELSE Ok([request_id |-> At(r, 4),
                      target |-> target,
                      request_data |->
                          IF Len(r) > DeviceRequestPacket_MIN_PACKET_LENGTH
                          THEN Some(SliceToLast(r, 8 + target_length))
                          ELSE None,
                      op_mode |-> operating_mode])

DeviceRequestPacket_needs_id == FALSE

\* _get_api_packet_spec_data: h is the heap the packet's reference points into.
DeviceRequestPacket_get_api_packet_spec_data(p, h) ==
    IF ~IsNone(p.target) /\ ~Utf8Encodable(Val(p.target))
    THEN Raise("UnicodeEncodeError", "target")
    ELSE Ok(int_to_bytes(p.req_id, 1)
            \o int_to_bytes(p.transport, 1)
            \o int_to_bytes(p.flags, 1)
            \o (IF ~IsNone(p.target)
                THEN int_to_bytes(Len(Val(p.target)), 1) \o Utf8Encode(Val(p.target))
                ELSE int_to_bytes(0, 1))
            \o (IF ~IsNone(p.req_data) THEN h[Val(p.req_data)] ELSE <<>>))

\* request_id setter
DeviceRequestPacket_set_request_id(p, request_id) ==
    IF DeviceRequestPacket_request_id_invalid(request_id)
    THEN Raise("ValueError", "request_id")
    ELSE Ok([p EXCEPT !.req_id = request_id])

\* target setter
DeviceRequestPacket_set_target(p, target) ==
    IF DeviceRequestPacket_target_invalid(target)
    THEN Raise("ValueError", "target")
    ELSE Ok([p EXCEPT !.target = target])

-----------------------------------------------------------------------------
(* DeviceResponsePacket *)

DeviceResponsePacket_MIN_PACKET_LENGTH == 8

DeviceResponsePacket_frame_id_invalid(frame_id) == frame_id < 0 \/ frame_id > 255

DeviceResponsePacket_request_id_invalid_off_by_one(request_id) ==
    request_id < 0 \/ request_id > 256

\* The range test of request_id (constructor line 291, setter line 394).
DeviceResponsePacket_request_id_invalid(request_id) ==
    request_id < 0 \/ request_id > 255

DeviceResponsePacket_init(frame_id, request_id, response_data, op_mode) ==
    IF DeviceResponsePacket_frame_id_invalid(frame_id)
    THEN Raise("ValueError", "frame_id")
    ELSE IF DeviceResponsePacket_request_id_invalid(request_id)
    THEN Raise("ValueError", "request_id")
    ELSE Ok([kind |-> "DeviceResponse",
             base |-> [XBeeAPIPacket_init(ApiFrameType_DEVICE_RESPONSE, op_mode)
                          EXCEPT !.frame_id = frame_id],
             req_id |-> request_id, resp_data |-> response_data])

\* A variant that takes the checksum byte into the payload.
DeviceResponsePacket_create_packet_keep_checksum(r, operating_mode) ==
    IF operating_mode \notin {"ESCAPED_API_MODE", "API_MODE"}
    THEN Raise("InvalidOperatingModeException", "mode")
    ELSE IF Envelope(r, DeviceResponsePacket_MIN_PACKET_LENGTH).exc # "none"
    THEN Envelope(r, DeviceResponsePacket_MIN_PACKET_LENGTH)
    ELSE IF frame_type_differs(r, ApiFrameType_DEVICE_RESPONSE)
    THEN Raise("InvalidPacketException", "frame_type")
    ELSE Ok([frame_id |-> At(r, 4),
             request_id |-> At(r, 5),
             response_data |->
                 IF Len(r) > DeviceResponsePacket_MIN_PACKET_LENGTH
                 THEN Some(Slice(r, 7, Len(r)))
                 ELSE None,
             op_mode |-> operating_mode])

DeviceResponsePacket_create_packet(r, operating_mode) ==
    IF operating_mode \notin {"ESCAPED_API_MODE", "API_MODE"}
    THEN Raise("InvalidOperatingModeException", "mode")
    ELSE IF Envelope(r, DeviceResponsePacket_MIN_PACKET_LENGTH).exc # "none"
    THEN Envelope(r, DeviceResponsePacket_MIN_PACKET_LENGTH)
    ELSE IF frame_type_differs(r, ApiFrameType_DEVICE_RESPONSE)
    THEN Raise("InvalidPacketException", "frame_type")
    ELSE Ok([frame_id |-> At(r, 4),
             request_id |-> At(r, 5),
             response_data |->
                 IF Len(r) > DeviceResponsePacket_MIN_PACKET_LENGTH
                 THEN Some(SliceToLast(r, 7))
                 ELSE None,
             op_mode |-> operating_mode])

DeviceResponsePacket_needs_id == TRUE

\* A variant that leaves out the reserved byte after the request id.
DeviceResponsePacket_get_api_packet_spec_data_no_reserved(p, h) ==
    Ok(int_to_bytes(p.req_id, 1)
       \o (IF ~IsNone(p.resp_data) THEN h[Val(p.resp_data)] ELSE <<>>))

DeviceResponsePacket_get_api_packet_spec_data(p, h) ==
    Ok(int_to_bytes(p.req_id, 1)
       \o int_to_bytes(0, 1)
       \o (IF ~IsNone(p.resp_data) THEN h[Val(p.resp_data)] ELSE <<>>))

DeviceResponsePacket_set_request_id(p, request_id) ==
    IF DeviceResponsePacket_request_id_invalid(request_id)
    THEN Raise("ValueError", "request_id")
    ELSE Ok([p EXCEPT !.req_id = request_id])

-----------------------------------------------------------------------------
(* DeviceResponseStatusPacket *)

DeviceResponseStatusPacket_MIN_PACKET_LENGTH == 7

DeviceResponseStatusPacket_frame_id_invalid(frame_id) ==
    frame_id < 0 \/ frame_id > 255

DeviceResponseStatusPacket_init(frame_id, status, op_mode) ==
    IF DeviceResponseStatusPacket_frame_id_invalid(frame_id)
    THEN Raise("ValueError", "frame_id")
    ELSE Ok([kind |-> "DeviceResponseStatus",
             base |-> [XBeeAPIPacket_init(ApiFrameType_DEVICE_RESPONSE_STATUS, op_mode)
                          EXCEPT !.frame_id = frame_id],
             status |-> status])

DeviceResponseStatusPacket_create_packet(r, operating_mode) ==
    IF operating_mode \notin {"ESCAPED_API_MODE", "API_MODE"}
    THEN Raise("InvalidOperatingModeException", "mode")
    ELSE IF Envelope(r, DeviceResponseStatusPacket_MIN_PACKET_LENGTH).exc # "none"
    THEN Envelope(r, DeviceResponseStatusPacket_MIN_PACKET_LENGTH)
    ELSE IF frame_type_differs(r, ApiFrameType_DEVICE_RESPONSE_STATUS)
    THEN Raise("InvalidPacketException", "frame_type")
    ELSE Ok([frame_id |-> At(r, 4),
             status |-> DeviceCloudStatus_get(At(r, 5)),
             op_mode |-> operating_mode])

DeviceResponseStatusPacket_needs_id == TRUE

DeviceResponseStatusPacket_get_api_packet_spec_data(p, h) ==
    Ok(int_to_bytes(p.status.code, 1))

\* status setter: no validation
DeviceResponseStatusPacket_set_status(p, status) ==
    Ok([p EXCEPT !.status = status])

-----------------------------------------------------------------------------
(* FrameErrorPacket *)

FrameErrorPacket_MIN_PACKET_LENGTH == 6

FrameErrorPacket_init(frame_error, op_mode) ==
    Ok([kind |-> "FrameError",
        base |-> XBeeAPIPacket_init(ApiFrameType_FRAME_ERROR, op_mode),
        frame_error |-> frame_error])

\* A variant that looks at the envelope before the operating mode.
FrameErrorPacket_create_packet_envelope_first(r, operating_mode) ==
    IF Envelope(r, FrameErrorPacket_MIN_PACKET_LENGTH).exc # "none"
    THEN Envelope(r, FrameErrorPacket_MIN_PACKET_LENGTH)
    ELSE IF operating_mode \notin {"ESCAPED_API_MODE", "API_MODE"}
    THEN Raise("InvalidOperatingModeException", "mode")
    ELSE IF frame_type_differs(r, ApiFrameType_FRAME_ERROR)
    THEN Raise("InvalidPacketException", "frame_type")
    ELSE Ok([frame_error |-> FrameError_get(At(r, 4)),
             op_mode |-> operating_mode])

FrameErrorPacket_create_packet(r, operating_mode) ==
    IF operating_mode \notin {"ESCAPED_API_MODE", "API_MODE"}
    THEN Raise("InvalidOperatingModeException", "mode")
    ELSE IF Envelope(r, FrameErrorPacket_MIN_PACKET_LENGTH).exc # "none"
    THEN Envelope(r, FrameErrorPacket_MIN_PACKET_LENGTH)
    ELSE IF frame_type_differs(r, ApiFrameType_FRAME_ERROR)
    THEN Raise("InvalidPacketException", "frame_type")
    ELSE Ok([frame_error |-> FrameError_get(At(r, 4)),
             op_mode |-> operating_mode])

FrameErrorPacket_needs_id == FALSE

FrameErrorPacket_get_api_packet_spec_data(p, h) ==
    Ok(int_to_bytes(p.frame_error.code, 1))

\* error setter: no validation
FrameErrorPacket_set_error(p, frame_error) ==
    Ok([p EXCEPT !.frame_error = frame_error])

-----------------------------------------------------------------------------
(* SendDataRequestPacket *)

SendDataRequestPacket_MIN_PACKET_LENGTH == 10

SendDataRequestPacket_frame_id_invalid(frame_id) == frame_id < 0 \/ frame_id > 255

\* __init__: only frame_id is validated; path, content_type and options are
\* stored as passed, file_data as the reference passed.
SendDataRequestPacket_init(frame_id, path, content_type, options, file_data, op_mode) ==
    IF SendDataRequestPacket_frame_id_invalid(frame_id)
    THEN Raise("ValueError", "frame_id")
    ELSE Ok([kind |-> "SendDataRequest",
             base |-> [XBeeAPIPacket_init(ApiFrameType_SEND_DATA_REQUEST, op_mode)
                          EXCEPT !.frame_id = frame_id],
             path |-> path, content_type |-> content_type, transport |-> 0,
             opts |-> options, file_data |-> file_data])

\* A variant that does not skip the transport byte: the options code is read
\* right after the content type.
SendDataRequestPacket_create_packet_no_transport(r, operating_mode) ==
    IF operating_mode \notin {"ESCAPED_API_MODE", "API_MODE"}
    THEN Raise("InvalidOperatingModeException", "mode")
    ELSE IF Envelope(r, SendDataRequestPacket_MIN_PACKET_LENGTH).exc # "none"
    THEN Envelope(r, SendDataRequestPacket_MIN_PACKET_LENGTH)
    ELSE IF frame_type_differs(r, ApiFrameType_SEND_DATA_REQUEST)
    THEN Raise("InvalidPacketException", "frame_type")
    ELSE LET path_length == At(r, 5)
         IN  IF 6 + path_length >= Len(r)
             THEN Raise("IndexError", "content_type_length")
             ELSE LET content_type_length == At(r, 6 + path_length)
                      path == Utf8Decode(Slice(r, 6, 6 + path_length))
                      content_type ==
                          Utf8Decode(Slice(r, 6 + path_length + 1,
                                           6 + path_length + 1 + content_type_length))
                      opts_at == 6 + path_length + 1 + content_type_length
                  IN  IF IsNone(path) THEN Raise("UnicodeDecodeError", "path")
                      ELSE IF IsNone(content_type)
                      THEN Raise("UnicodeDecodeError", "content_type")
                      ELSE IF opts_at >= Len(r) THEN Raise("IndexError", "options")
                      ELSE Ok([frame_id |-> At(r, 4),
                               path |-> path,
                               content_type |-> content_type,
                               options |-> SendDataRequestOptions_get(At(r, opts_at)),
                               file_data |->
                                   Some(SliceToLast(r, 6 + path_length + 2
                                                       + content_type_length)),
                               op_mode |-> operating_mode])

\* create_packet: raw[k] past the end raises IndexError, a slice past the end
\* is cut short; the arguments are evaluated left to right.
SendDataRequestPacket_create_packet(r, operating_mode) ==
    IF operating_mode \notin {"ESCAPED_API_MODE", "API_MODE"}
    THEN Raise("InvalidOperatingModeException", "mode")
    ELSE IF Envelope(r, SendDataRequestPacket_MIN_PACKET_LENGTH).exc # "none"
    THEN Envelope(r, SendDataRequestPacket_MIN_PACKET_LENGTH)
    ELSE IF frame_type_differs(r, ApiFrameType_SEND_DATA_REQUEST)
    THEN Raise("InvalidPacketException", "frame_type")
    ELSE LET path_length == At(r, 5)
         IN  IF 6 + path_length >= Len(r)
             THEN Raise("IndexError", "content_type_length")
             ELSE LET content_type_length == At(r, 6 + path_length)
                      path == Utf8Decode(Slice(r, 6, 6 + path_length))
                      content_type ==
                          Utf8Decode(Slice(r, 6 + path_length + 1,
                                           6 + path_length + 1 + content_type_length))
                      opts_at == 6 + path_length + 2 + content_type_length
                  IN  IF IsNone(path) THEN Raise("UnicodeDecodeError", "path")
                      ELSE IF IsNone(content_type)
                      THEN Raise("UnicodeDecodeError", "content_type")
                      ELSE IF opts_at >= Len(r) THEN Raise("IndexError", "options")
                      ELSE Ok([frame_id |-> At(r, 4),
                               path |-> path,
                               content_type |-> content_type,
                               options |-> SendDataRequestOptions_get(At(r, opts_at)),
                               file_data |->
                                   Some(SliceToLast(r, 6 + path_length + 3
                                                       + content_type_length)),
                               op_mode |-> operating_mode])

SendDataRequestPacket_needs_id == TRUE

SendDataRequestPacket_get_api_packet_spec_data(p, h) ==
    IF \/ ~IsNone(p.path) /\ ~Utf8Encodable(Val(p.path))
       \/ ~IsNone(p.content_type) /\ ~Utf8Encodable(Val(p.content_type))
    THEN Raise("UnicodeEncodeError", "text")
    ELSE Ok((IF ~IsNone(p.path)
             THEN int_to_bytes(Len(Val(p.path)), 1) \o Utf8Encode(Val(p.path))
             ELSE int_to_bytes(0, 1))
            \o (IF ~IsNone(p.content_type)
                THEN int_to_bytes(Len(Val(p.content_type)), 1)
                         \o Utf8Encode(Val(p.content_type))
                ELSE int_to_bytes(0, 1))
            \o int_to_bytes(0, 1)
            \o int_to_bytes(p.opts.code, 1)
            \o (IF ~IsNone(p.file_data) THEN h[Val(p.file_data)] ELSE <<>>))

\* path, content_type and options setters: no validation
SendDataRequestPacket_set_path(p, path) == Ok([p EXCEPT !.path = path])

SendDataRequestPacket_set_content_type(p, content_type) ==
    Ok([p EXCEPT !.content_type = content_type])

SendDataRequestPacket_set_options(p, options) == Ok([p EXCEPT !.opts = options])

-----------------------------------------------------------------------------
(* SendDataResponsePacket *)

SendDataResponsePacket_MIN_PACKET_LENGTH == 7

SendDataResponsePacket_frame_id_invalid(frame_id) == frame_id < 0 \/ frame_id > 255

SendDataResponsePacket_init(frame_id, status, op_mode) ==
    IF SendDataResponsePacket_frame_id_invalid(frame_id)
    THEN Raise("ValueError", "frame_id")
    ELSE Ok([kind |-> "SendDataResponse",
             base |-> [XBeeAPIPacket_init(ApiFrameType_SEND_DATA_RESPONSE, op_mode)
                          EXCEPT !.frame_id = frame_id],
             status |-> status])

SendDataResponsePacket_create_packet(r, operating_mode) ==
    IF operating_mode \notin {"ESCAPED_API_MODE", "API_MODE"}
    THEN Raise("InvalidOperatingModeException", "mode")
    ELSE IF Envelope(r, SendDataResponsePacket_MIN_PACKET_LENGTH).exc # "none"
    THEN Envelope(r, SendDataResponsePacket_MIN_PACKET_LENGTH)
    ELSE IF frame_type_differs(r, ApiFrameType_SEND_DATA_RESPONSE)
    THEN Raise("InvalidPacketException", "frame_type")
    ELSE Ok([frame_id |-> At(r, 4),
             status |-> DeviceCloudStatus_get(At(r, 5)),
             op_mode |-> operating_mode])

SendDataResponsePacket_needs_id == TRUE

SendDataResponsePacket_get_api_packet_spec_data(p, h) ==
    Ok(int_to_bytes(p.status.code, 1))

SendDataResponsePacket_set_status(p, status) == Ok([p EXCEPT !.status = status])

-----------------------------------------------------------------------------
(* The six kinds, by name *)

Kinds == {"DeviceRequest", "DeviceResponse", "DeviceResponseStatus",
          "FrameError", "SendDataRequest", "SendDataResponse"}

PayloadKinds == {"DeviceRequest", "DeviceResponse", "SendDataRequest"}

MinPacketLength(kind) ==
    CASE kind = "DeviceRequest" -> DeviceRequestPacket_MIN_PACKET_LENGTH
      [] kind = "DeviceResponse" -> DeviceResponsePacket_MIN_PACKET_LENGTH
      [] kind = "DeviceResponseStatus" -> DeviceResponseStatusPacket_MIN_PACKET_LENGTH
      [] kind = "FrameError" -> FrameErrorPacket_MIN_PACKET_LENGTH
      [] kind = "SendDataRequest" -> SendDataRequestPacket_MIN_PACKET_LENGTH
      [] kind = "SendDataResponse" -> SendDataResponsePacket_MIN_PACKET_LENGTH

FrameTypeCode(kind) ==
    CASE kind = "DeviceRequest" -> ApiFrameType_DEVICE_REQUEST
      [] kind = "DeviceResponse" -> ApiFrameType_DEVICE_RESPONSE
      [] kind = "DeviceResponseStatus" -> ApiFrameType_DEVICE_RESPONSE_STATUS
      [] kind = "FrameError" -> ApiFrameType_FRAME_ERROR
      [] kind = "SendDataRequest" -> ApiFrameType_SEND_DATA_REQUEST
      [] kind = "SendDataResponse" -> ApiFrameType_SEND_DATA_RESPONSE

needs_id(kind) ==
    CASE kind = "DeviceRequest" -> DeviceRequestPacket_needs_id
      [] kind = "DeviceResponse" -> DeviceResponsePacket_needs_id
      [] kind = "DeviceResponseStatus" -> DeviceResponseStatusPacket_needs_id
      [] kind = "FrameError" -> FrameErrorPacket_needs_id
      [] kind = "SendDataRequest" -> SendDataRequestPacket_needs_id
      [] kind = "SendDataResponse" -> SendDataResponsePacket_needs_id

create_packet(kind, r, operating_mode) ==
    CASE kind = "DeviceRequest" -> DeviceRequestPacket_create_packet(r, operating_mode)
      [] kind = "DeviceResponse" -> DeviceResponsePacket_create_packet(r, operating_mode)
      [] kind = "DeviceResponseStatus" ->
             DeviceResponseStatusPacket_create_packet(r, operating_mode)
      [] kind = "FrameError" -> FrameErrorPacket_create_packet(r, operating_mode)
      [] kind = "SendDataRequest" -> SendDataRequestPacket_create_packet(r, operating_mode)
      [] kind = "SendDataResponse" ->
             SendDataResponsePacket_create_packet(r, operating_mode)

get_api_packet_spec_data(p, h) ==
    CASE p.kind = "DeviceRequest" -> DeviceRequestPacket_get_api_packet_spec_data(p, h)
      [] p.kind = "DeviceResponse" -> DeviceResponsePacket_get_api_packet_spec_data(p, h)
      [] p.kind = "DeviceResponseStatus" ->
             DeviceResponseStatusPacket_get_api_packet_spec_data(p, h)
      [] p.kind = "FrameError" -> FrameErrorPacket_get_api_packet_spec_data(p, h)
      [] p.kind = "SendDataRequest" -> SendDataRequestPacket_get_api_packet_spec_data(p, h)
      [] p.kind = "SendDataResponse" ->
             SendDataResponsePacket_get_api_packet_spec_data(p, h)

\* XBeePacket.output() of packet p: the whole frame, or the exception raised
\* while the fields are laid out.
output(p, h) ==
    LET d == get_api_packet_spec_data(p, h)
    IN  IF d.exc # "none" THEN d
        ELSE Ok(output_frame(frame_spec_data(p.base.frame_type, needs_id(p.kind),
                                             p.base.frame_id, d.val)))

\* The reference a packet stores for its payload (None: no payload, or a kind
\* without one).
PayloadRef(p) ==
    CASE p.kind = "DeviceRequest" -> p.req_data
      [] p.kind = "DeviceResponse" -> p.resp_data
      [] p.kind = "SendDataRequest" -> p.file_data
      [] OTHER -> None

\* The constructor call create_packet ends with; ref is the reference of the
\* bytearray the payload slice became (None when the argument is None).
init_from_args(kind, a, ref) ==
    CASE kind = "DeviceRequest" ->
             DeviceRequestPacket_init(a.request_id, a.target, ref, a.op_mode)
      [] kind = "DeviceResponse" ->
             DeviceResponsePacket_init(a.frame_id, a.request_id, ref, a.op_mode)
      [] kind = "DeviceResponseStatus" ->
             DeviceResponseStatusPacket_init(a.frame_id, a.status, a.op_mode)
      [] kind = "FrameError" -> FrameErrorPacket_init(a.frame_error, a.op_mode)
      [] kind = "SendDataRequest" ->
             SendDataRequestPacket_init(a.frame_id, a.path, a.content_type,
                                        a.options, ref, a.op_mode)
      [] kind = "SendDataResponse" ->
             SendDataResponsePacket_init(a.frame_id, a.status, a.op_mode)

\* The payload argument among the constructor arguments create_packet built.
ArgPayload(kind, a) ==
    CASE kind = "DeviceRequest" -> a.request_data
      [] kind = "DeviceResponse" -> a.response_data
      [] kind = "SendDataRequest" -> a.file_data
      [] OTHER -> None

-----------------------------------------------------------------------------
(* Payload accessors: they work on the heap *)

\* A payload getter's result: the reference returned and the heap afterwards.
\* bytearray.copy() makes a new object.
CopyOut(ref, h) ==
    IF IsNone(ref) THEN [ret |-> None, heap |-> h]
    ELSE [ret |-> Some(Len(h) + 1), heap |-> Append(h, h[Val(ref)])]

DeviceRequestPacket_get_request_data_no_copy(p, h) ==
    [ret |-> p.req_data, heap |-> h]

DeviceRequestPacket_get_request_data(p, h) == CopyOut(p.req_data, h)

DeviceResponsePacket_get_request_data(p, h) == CopyOut(p.resp_data, h)

SendDataRequestPacket_get_file_data(p, h) == CopyOut(p.file_data, h)

payload_getter(p, h) ==
    CASE p.kind = "DeviceRequest" -> DeviceRequestPacket_get_request_data(p, h)
      [] p.kind = "DeviceResponse" -> DeviceResponsePacket_get_request_data(p, h)
      [] p.kind = "SendDataRequest" -> SendDataRequestPacket_get_file_data(p, h)

\* A payload setter: the packet and the heap afterwards; the packet keeps a
\* copy of the bytearray it is given.
DeviceRequestPacket_set_request_data(p, request_data, h) ==
    LET c == CopyOut(request_data, h)
    IN  [obj |-> [p EXCEPT !.req_data = c.ret], heap |-> c.heap]

DeviceResponsePacket_set_request_data(p, response_data, h) ==
    LET c == CopyOut(response_data, h)
    IN  [obj |-> [p EXCEPT !.resp_data = c.ret], heap |-> c.heap]

SendDataRequestPacket_set_file_data(p, file_data, h) ==
    LET c == CopyOut(file_data, h)
    IN  [obj |-> [p EXCEPT !.file_data = c.ret], heap |-> c.heap]

payload_setter(p, data, h) ==
    CASE p.kind = "DeviceRequest" -> DeviceRequestPacket_set_request_data(p, data, h)
      [] p.kind = "DeviceResponse" -> DeviceResponsePacket_set_request_data(p, data, h)
      [] p.kind = "SendDataRequest" -> SendDataRequestPacket_set_file_data(p, data, h)

\* What the caller observes of a packet: its fields, the payload by content.
Deref(ref, h) == IF IsNone(ref) THEN None ELSE Some(h[Val(ref)])

View(p, h) ==
    CASE p.kind = "DeviceRequest" -> [p EXCEPT !.req_data = Deref(p.req_data, h)]
      [] p.kind = "DeviceResponse" -> [p EXCEPT !.resp_data = Deref(p.resp_data, h)]
      [] p.kind = "SendDataRequest" -> [p EXCEPT !.file_data = Deref(p.file_data, h)]
      [] OTHER -> p

-----------------------------------------------------------------------------
(* Bounds of the model *)

\* bytearray objects ever created in one run.
MaxBufs == 3

\* Longest payload the caller builds byte by byte.
MaxDataLen == 2

\* Longest body (after the frame type byte) the caller crafts by hand.
MaxTail == 5

\* The caller's two packet variables.
Slots == {1, 2}

NoPacket == [kind |-> "none"]

Last(op, slot, kind, r, arg) ==
    [op |-> op, slot |-> slot, kind |-> kind, exc |-> r.exc, why |-> r.why, arg |-> arg]

\* The payload arguments a caller can pass: None or a bytearray it holds.
PayloadArgs == {None} \cup {Some(b) : b \in hold}

-----------------------------------------------------------------------------
(* Operations *)

Init ==
    /\ heap = <<>>
    /\ pkts = [s \in Slots |-> NoPacket]
    /\ hold = {}
    /\ got = {}
    /\ raw = <<>>
    /\ src = [by |-> "none", slot |-> 0]
    /\ last = Last("init", 0, "none", Ok(None), None)

\* The caller creates a bytearray with content d.
NewBuffer(d) ==
    /\ Len(heap) < MaxBufs
    /\ heap' = Append(heap, d)
    /\ hold' = hold \cup {Len(heap) + 1}
    /\ last' = Last("new_buffer", 0, "none", Ok(None), Len(heap) + 1)
    /\ UNCHANGED <<pkts, got, raw, src>>

\* The caller changes the content of a bytearray it holds (item assignment,
\* append, clear, ...).
MutateBuffer(b, d) ==
    /\ b \in hold
    /\ d # heap[b]
    /\ heap' = [heap EXCEPT ![b] = d]
    /\ last' = Last("mutate", 0, "none", Ok(None), b)
    /\ UNCHANGED <<pkts, hold, got, raw, src>>

\* slot = Kind(...): the variable is bound only when the constructor returns.
Bind(s, kind, r, arg) ==
    /\ pkts' = IF r.exc = "none" THEN [pkts EXCEPT ![s] = r.val] ELSE pkts
    /\ got' = IF r.exc = "none" THEN {g \in got : g[1] # s} ELSE got
    /\ last' = Last("construct", s, kind, r, arg)
    /\ UNCHANGED <<heap, hold, raw, src>>

NewDeviceRequest(s, request_id, target, request_data, op_mode) ==
    Bind(s, "DeviceRequest",
         DeviceRequestPacket_init(request_id, target, request_data, op_mode),
         [request_id |-> request_id, target |-> target, data |-> request_data])

NewDeviceResponse(s, frame_id, request_id, response_data, op_mode) ==
    Bind(s, "DeviceResponse",
         DeviceResponsePacket_init(frame_id, request_id, response_data, op_mode),
         [frame_id |-> frame_id, request_id |-> request_id, data |-> response_data])

NewDeviceResponseStatus(s, frame_id, status, op_mode) ==
    Bind(s, "DeviceResponseStatus",
         DeviceResponseStatusPacket_init(frame_id, status, op_mode),
         [frame_id |-> frame_id])

NewFrameError(s, frame_error, op_mode) ==
    Bind(s, "FrameError", FrameErrorPacket_init(frame_error, op_mode), None)

NewSendDataRequest(s, frame_id, path, content_type, options, file_data, op_mode) ==
    Bind(s, "SendDataRequest",
         SendDataRequestPacket_init(frame_id, path, content_type, options,
                                    file_data, op_mode),
         [frame_id |-> frame_id, path |-> path, content_type |-> content_type,
          data |-> file_data])

NewSendDataResponse(s, frame_id, status, op_mode) ==
    Bind(s, "SendDataResponse",
         SendDataResponsePacket_init(frame_id, status, op_mode),
         [frame_id |-> frame_id])

\* A field setter that validates: the packet changes only when it returns.
Assign(s, op, r, arg) ==
    /\ pkts' = IF r.exc = "none" THEN [pkts EXCEPT ![s] = r.val] ELSE pkts
    /\ last' = Last(op, s, pkts[s].kind, r, arg)
    /\ UNCHANGED <<heap, hold, got, raw, src>>

SetFrameId(s, v) ==
    /\ pkts[s].kind \in Kinds
    /\ LET r == XBeeAPIPacket_set_frame_id(pkts[s].base, v)
       IN  Assign(s, "set_frame_id",
                  IF r.exc = "none" THEN Ok([pkts[s] EXCEPT !.base = r.val]) ELSE r, v)

SetRequestId(s, v) ==
    \/ /\ pkts[s].kind = "DeviceRequest"
       /\ Assign(s, "set_request_id", DeviceRequestPacket_set_request_id(pkts[s], v), v)
    \/ /\ pkts[s].kind = "DeviceResponse"
       /\ Assign(s, "set_request_id", DeviceResponsePacket_set_request_id(pkts[s], v), v)

SetTarget(s, t) ==
    /\ pkts[s].kind = "DeviceRequest"
    /\ Assign(s, "set_target", DeviceRequestPacket_set_target(pkts[s], t), t)

SetPath(s, t) ==
    /\ pkts[s].kind = "SendDataRequest"
    /\ Assign(s, "set_path", SendDataRequestPacket_set_path(pkts[s], t), t)

SetContentType(s, t) ==
    /\ pkts[s].kind = "SendDataRequest"
    /\ Assign(s, "set_content_type",
              SendDataRequestPacket_set_content_type(pkts[s], t), t)

SetCode(s, c) ==
    \/ /\ pkts[s].kind = "DeviceResponseStatus"
       /\ Assign(s, "set_status", DeviceResponseStatusPacket_set_status(pkts[s], c), c)
    \/ /\ pkts[s].kind = "FrameError"
       /\ Assign(s, "set_error", FrameErrorPacket_set_error(pkts[s], c), c)
    \/ /\ pkts[s].kind = "SendDataRequest"
       /\ Assign(s, "set_options", SendDataRequestPacket_set_options(pkts[s], c), c)
    \/ /\ pkts[s].kind = "SendDataResponse"
       /\ Assign(s, "set_status", SendDataResponsePacket_set_status(pkts[s], c), c)

\* packet.request_data = data / packet.file_data = data
SetPayload(s, data) ==
    /\ pkts[s].kind \in PayloadKinds
    /\ Len(heap) < MaxBufs
    /\ LET r == payload_setter(pkts[s], data, heap)
       IN  /\ pkts' = [pkts EXCEPT ![s] = r.obj]
           /\ heap' = r.heap
    /\ last' = Last("set_payload", s, pkts[s].kind, Ok(None), data)
    /\ UNCHANGED <<hold, got, raw, src>>

\* x = packet.request_data / x = packet.file_data: the caller keeps what it got.
GetPayload(s) ==
    /\ pkts[s].kind \in PayloadKinds
    /\ Len(heap) < MaxBufs
    /\ LET r == payload_getter(pkts[s], heap)
       IN  /\ heap' = r.heap
           /\ hold' = IF IsNone(r.ret) THEN hold ELSE hold \cup {Val(r.ret)}
           /\ got' = IF IsNone(r.ret) THEN got ELSE got \cup {<<s, Val(r.ret)>>}
           /\ last' = Last("get_payload", s, pkts[s].kind, Ok(None), r.ret)
    /\ UNCHANGED <<pkts, raw, src>>

\* raw = packet.output()
Output(s) ==
    /\ pkts[s].kind \in Kinds
    /\ LET r == output(pkts[s], heap)
       IN  /\ raw' = IF r.exc = "none" THEN r.val ELSE raw
           /\ src' = IF r.exc = "none" THEN [by |-> "output", slot |-> s] ELSE src
           /\ last' = Last("output", s, pkts[s].kind, r, None)
    /\ UNCHANGED <<heap, pkts, hold, got>>

\* The caller receives a frame whose envelope is sound around a body of its
\* choice: a frame type byte and the bytes after it.
Feed(type, tail) ==
    /\ raw' = output_frame(<<type>> \o tail)
    /\ src' = [by |-> "caller", slot |-> 0]
    /\ last' = Last("feed", 0, "none", Ok(None), None)
    /\ UNCHANGED <<heap, pkts, hold, got>>

\* The frame is damaged before it is decoded.
Damaged(r, how) ==
    CASE how = "checksum" -> [r EXCEPT ![Len(r)] = (r[Len(r)] + 1) % 256]
      [] how = "header" -> [r EXCEPT ![1] = 0]
      [] how = "length" -> [r EXCEPT ![3] = (r[3] + 1) % 256]
      [] how = "cut" -> Slice(r, 0, 3)

Corrupt(how) ==
    /\ Len(raw) >= 4
    /\ raw' = Damaged(raw, how)
    /\ src' = [by |-> "caller", slot |-> 0]
    /\ last' = Last("corrupt", 0, "none", Ok(None), how)
    /\ UNCHANGED <<heap, pkts, hold, got>>

\* slot = Kind.create_packet(raw, operating_mode)
Decode(s, kind, operating_mode) ==
    /\ Len(heap) < MaxBufs
    /\ LET r   == create_packet(kind, raw, operating_mode)
           pay == IF r.exc = "none" THEN ArgPayload(kind, r.val) ELSE None
           ref == IF IsNone(pay) THEN None ELSE Some(Len(heap) + 1)
           c   == IF r.exc = "none" THEN init_from_args(kind, r.val, ref) ELSE r
       IN  /\ heap' = IF IsNone(pay) THEN heap ELSE Append(heap, Val(pay))
           /\ pkts' = IF c.exc = "none" THEN [pkts EXCEPT ![s] = c.val] ELSE pkts
           /\ got' = IF c.exc = "none" THEN {g \in got : g[1] # s} ELSE got
           /\ last' = Last("decode", s, kind, c, operating_mode)
    /\ UNCHANGED <<hold, raw, src>>

-----------------------------------------------------------------------------
(* Inputs *)

\* Integers offered as frame_id / request_id: both ends of the range and the
\* first value past each.
IdVals == {-1, 0, 255, 256}

\* Texts offered as target / path / content_type: absent, empty, ASCII,
\* two-byte characters (U+00E9), and the longest ones by characters and bytes.
Texts ==
    {None, Some(<<>>), Some(<<97>>), Some(<<233>>), Some(<<97, 98>>),
     Some(Repeat(97, 255)), Some(Repeat(233, 128))}

ShortTexts == {None, Some(<<97>>), Some(<<233>>)}

\* Texts past the limit, by characters.
LongTexts == {Some(Repeat(97, 256)), Some(Repeat(233, 256))}

DataBytes == {0, 255}

DataVals == UNION {[1..n -> DataBytes] : n \in 0..MaxDataLen}

StatusVals == {DeviceCloudStatus_get(0), DeviceCloudStatus_get(64)}

ErrorVals == {FrameError_get(2), FrameError_get(8)}

OptionVals == {SendDataRequestOptions_get(0), SendDataRequestOptions_get(3)}

CtorModes == {"API_MODE", "ESCAPED_API_MODE"}

DecodeModes == {"API_MODE", "ESCAPED_API_MODE", "AT_MODE"}

\* Bytes of hand-made bodies: 0, 2 (a length prefix, a code, a character) and
\* 0xC8, which is a large length prefix and, alone, not UTF-8.
FeedBytes == {0, 2, 200}

FeedTails == UNION {[1..n -> FeedBytes] : n \in 0..MaxTail}

TypeBytes == {FrameTypeCode(k) : k \in Kinds}

-----------------------------------------------------------------------------
(* The codec: construct, encode, decode.  One packet is built in slot 1 and   *)
(* encoded, or a frame arrives from outside; the frame is decoded into slot 2 *)

\* The payload passed to the constructor: the bytearray just made, or None.
CodecPayloadArgs == IF last.op = "new_buffer" THEN {Some(last.arg)} ELSE {None}

CodecConstruct ==
    /\ last.op \in {"init", "new_buffer"}
    /\ \E m \in CtorModes :
        \/ \E i \in IdVals, t \in Texts, d \in CodecPayloadArgs :
               NewDeviceRequest(1, i, t, d, m)
        \/ \E f \in IdVals, i \in {0, 255}, d \in CodecPayloadArgs :
               NewDeviceResponse(1, f, i, d, m)
        \/ \E f \in IdVals, c \in StatusVals :
               last.op = "init" /\ NewDeviceResponseStatus(1, f, c, m)
        \/ \E c \in ErrorVals : last.op = "init" /\ NewFrameError(1, c, m)
        \/ \E f \in {0, 255}, t \in Texts, u \in ShortTexts, c \in OptionVals,
              d \in CodecPayloadArgs :
               NewSendDataRequest(1, f, t, u, c, d, m)
        \/ \E f \in IdVals, c \in StatusVals :
               last.op = "init" /\ NewSendDataResponse(1, f, c, m)

CodecOutput ==
    /\ last.op = "construct"
    /\ last.exc = "none"
    /\ Output(1)

CodecFeed ==
    /\ last.op = "init"
    /\ \E t \in TypeBytes, tail \in FeedTails : Feed(t, tail)

CodecCorrupt ==
    /\ last.op = "output"
    /\ last.exc = "none"
    /\ \E how \in {"checksum", "header", "length", "cut"} : Corrupt(how)

\* A frame of the caller's is decoded as any kind; a frame that output() made,
\* damaged or not, as any kind when intact and as its own kind when damaged.
CodecDecode ==
    /\ \/ last.op \in {"feed", "corrupt"}
       \/ last.op = "output" /\ last.exc = "none"
    /\ \E k \in (IF last.op = "corrupt" THEN {pkts[1].kind} ELSE Kinds),
          m \in DecodeModes : Decode(2, k, m)

NextCodec ==
    \/ last.op = "init" /\ \E d \in DataVals : NewBuffer(d)
    \/ CodecConstruct
    \/ CodecOutput
    \/ CodecFeed
    \/ CodecCorrupt
    \/ CodecDecode

SpecCodec == Init /\ [][NextCodec]_vars

-----------------------------------------------------------------------------
(* Properties of the codec, checked under SpecCodec *)

Decoded == last.op = "decode"

\* The frame decoded is the output of the packet in slot src.slot, decoded as
\* that packet's kind in that packet's operating mode.
DecodedOwnOutput ==
    /\ Decoded
    /\ src.by = "output"
    /\ last.kind = pkts[src.slot].kind
    /\ last.arg = pkts[src.slot].base.op_mode

\* The frame decoded has a sound envelope for the kind, and the kind's type.
DecodedSoundFrame ==
    /\ Decoded
    /\ last.arg \in SupportedModes
    /\ check_api_packet(raw, MinPacketLength(last.kind)) = ""
    /\ At(raw, 3) = FrameTypeCode(last.kind)

\* Bytes of the body: the frame without start marker, length and checksum.
BodyLen(r) == Len(r) - 4

\* C1: decoding the encoding of a constructed packet yields a packet equal to
\* the original in every observable field, for every accepted field value.
C1_RoundTrip ==
    DecodedOwnOutput =>
        /\ last.exc = "none"
        /\ View(pkts[last.slot], heap) = View(pkts[src.slot], heap)

\* C2: a DeviceRequest or DeviceResponse body with no byte after the last
\* named field decodes to the state of an absent payload (None), whatever the
\* target length is.
C2_NoPayloadIsAbsent ==
    ( /\ Decoded
      /\ last.exc = "none"
      /\ \/ /\ last.kind = "DeviceRequest"
            /\ Len(raw) = DeviceRequestPacket_MIN_PACKET_LENGTH + At(raw, 7)
         \/ /\ last.kind = "DeviceResponse"
            /\ Len(raw) = DeviceResponsePacket_MIN_PACKET_LENGTH )
    => IsNone(PayloadRef(pkts[last.slot]))

\* A length prefix of the frame declares more bytes than the body has left
\* after it (the checksum is not part of the body).
PrefixOvershoots(kind, r) ==
    \/ /\ kind = "DeviceRequest"
       /\ At(r, 7) > (Len(r) - 1) - 8
    \/ /\ kind = "SendDataRequest"
       /\ \/ At(r, 5) > (Len(r) - 1) - 6
          \/ /\ 6 + At(r, 5) < Len(r) - 1
             /\ At(r, 6 + At(r, 5)) > (Len(r) - 1) - (6 + At(r, 5) + 1)

\* C3: decoding a DeviceRequest or SendDataRequest body whose length prefix
\* declares more bytes than remain fails with a decode error
\* (InvalidPacketException); no packet is returned.
C3_OvershootRejected ==
    (DecodedSoundFrame /\ PrefixOvershoots(last.kind, raw))
    => /\ last.exc = "InvalidPacketException"
       /\ pkts[last.slot] = NoPacket

\* C4: in a supported operating mode, decoding as kind K a frame whose frame
\* type byte is not K's code raises InvalidPacketException and returns no
\* packet; with a sound envelope the reason is the frame type.
C4_FrameTypeMismatch ==
    ( /\ Decoded
      /\ last.arg \in SupportedModes
      /\ Len(raw) >= 4
      /\ At(raw, 3) # FrameTypeCode(last.kind) )
    => /\ last.exc = "InvalidPacketException"
       /\ pkts[last.slot] = NoPacket
       /\ check_api_packet(raw, MinPacketLength(last.kind)) = ""
              => last.why = "frame_type"

\* The frame r with its frame type byte replaced by code, in a sound envelope.
Retyped(r, code) == output_frame(<<code>> \o SliceToLast(r, 4))

\* C4's case: the envelope is sound, the type byte is another kind's, and the
\* same body under K's own type byte decodes as K.
C4_Witness ==
    /\ Decoded
    /\ last.arg \in SupportedModes
    /\ check_api_packet(raw, MinPacketLength(last.kind)) = ""
    /\ At(raw, 3) # FrameTypeCode(last.kind)
    /\ last.exc = "InvalidPacketException"
    /\ last.why = "frame_type"
    /\ create_packet(last.kind, Retyped(raw, FrameTypeCode(last.kind)), last.arg).exc
           = "none"

CodecErrors == {"InvalidPacketException", "InvalidOperatingModeException"}

\* C5: decode returns a packet or raises a codec error; a body shorter than
\* the kind's minimum is rejected with a codec error; no other fault (such as
\* an index out of range) and no packet on failure.
C5_AllOrNothing ==
    Decoded =>
        /\ last.exc \in CodecErrors \cup {"none"}
        /\ Len(raw) < MinPacketLength(last.kind) => last.exc \in CodecErrors
        /\ last.exc # "none" => pkts[last.slot] = NoPacket

\* The least body lengths as the specification lists them ...
ListedMinBody(kind) ==
    CASE kind = "DeviceRequest" -> 4
      [] kind = "DeviceResponse" -> 4
      [] kind = "DeviceResponseStatus" -> 3
      [] kind = "FrameError" -> 2
      [] kind = "SendDataRequest" -> 5
      [] kind = "SendDataResponse" -> 3

\* ... and as amended: a DeviceRequest body has five fixed bytes and a
\* SendDataRequest body six.
AmendedMinBody(kind) ==
    CASE kind = "DeviceRequest" -> 5
      [] kind = "DeviceResponse" -> 4
      [] kind = "DeviceResponseStatus" -> 3
      [] kind = "FrameError" -> 2
      [] kind = "SendDataRequest" -> 6
      [] kind = "SendDataResponse" -> 3

RejectedAsShort == last.exc = "InvalidPacketException" /\ last.why = "min_length"

\* C6 as stated: decode rejects a frame for its length exactly when its body is
\* shorter than 4 / 4 / 3 / 2 / 5 / 3 bytes.
C6_ListedMinBody ==
    (Decoded /\ last.arg \in SupportedModes)
    => (RejectedAsShort <=> BodyLen(raw) < ListedMinBody(last.kind))

\* C6 amended: decode rejects a frame for its length exactly when its body is
\* shorter than DeviceRequest 5, DeviceResponse 4, DeviceResponseStatus 3,
\* FrameError 2, SendDataRequest 6, SendDataResponse 3 bytes; so no shorter
\* body is ever accepted.
C6_AmendedMinBody ==
    (Decoded /\ last.arg \in SupportedModes)
    => /\ RejectedAsShort <=> BodyLen(raw) < AmendedMinBody(last.kind)
       /\ last.exc = "none" => BodyLen(raw) >= AmendedMinBody(last.kind)

\* C6's case: a DeviceRequest or SendDataRequest body of exactly the least
\* length is decoded into a packet.
C6_Witness ==
    /\ Decoded
    /\ last.kind \in {"DeviceRequest", "SendDataRequest"}
    /\ last.exc = "none"
    /\ pkts[last.slot].kind = last.kind
    /\ BodyLen(raw) = AmendedMinBody(last.kind)

-----------------------------------------------------------------------------
(* The field interface: constructors and validated or plain setters, on the   *)
(* packet variable of slot 1                                                   *)

AllTexts == Texts \cup LongTexts

\* packet = Kind(...), once: binding the variable again starts the same run
\* from the new packet.
FieldConstruct ==
    /\ pkts[1] = NoPacket
    /\ \/ \E i \in IdVals, t \in AllTexts : NewDeviceRequest(1, i, t, None, "API_MODE")
       \/ \E f \in IdVals, i \in IdVals : NewDeviceResponse(1, f, i, None, "API_MODE")
       \/ \E f \in IdVals, c \in StatusVals :
              NewDeviceResponseStatus(1, f, c, "API_MODE")
       \/ \E c \in ErrorVals : NewFrameError(1, c, "API_MODE")
       \/ \E f \in IdVals, t \in AllTexts, u \in ShortTexts, c \in OptionVals :
              NewSendDataRequest(1, f, t, u, c, None, "API_MODE")
       \/ \E f \in IdVals, c \in StatusVals : NewSendDataResponse(1, f, c, "API_MODE")

FieldSet ==
    \/ \E v \in IdVals : SetFrameId(1, v)
    \/ \E v \in IdVals : SetRequestId(1, v)
    \/ \E t \in AllTexts : SetTarget(1, t)
    \/ \E t \in AllTexts : SetPath(1, t)
    \/ \E t \in ShortTexts \cup LongTexts : SetContentType(1, t)
    \/ \E c \in StatusVals \cup ErrorVals \cup OptionVals : SetCode(1, c)

Next == FieldConstruct \/ FieldSet

Spec == Init /\ [][Next]_vars

IsPacket(p) == p.kind \in Kinds

InByte(v) == v >= 0 /\ v <= 255

\* The frame_id / request_id values an operation was called with.
IdArgs ==
    IF last.op \in {"set_frame_id", "set_request_id"} THEN {last.arg}
    ELSE IF last.op # "construct" THEN {}
    ELSE IF last.kind = "DeviceRequest" THEN {last.arg.request_id}
    ELSE IF last.kind = "DeviceResponse" THEN {last.arg.frame_id, last.arg.request_id}
    ELSE IF last.kind = "FrameError" THEN {}
    ELSE {last.arg.frame_id}

\* C7: constructing with, or setting, a frame_id or request_id v raises
\* ValueError for it exactly when v is outside 0..255 (a setter, and a
\* constructor whose other arguments are accepted, succeeds otherwise), and
\* every frame_id and request_id of every packet is within 0..255.
C7_IdRange ==
    /\ \A s \in Slots :
           IsPacket(pkts[s]) =>
               /\ InByte(pkts[s].base.frame_id)
               /\ pkts[s].kind \in {"DeviceRequest", "DeviceResponse"}
                      => InByte(pkts[s].req_id)
    /\ last.op \in {"construct", "set_frame_id", "set_request_id"} =>
           /\ (last.exc = "ValueError" /\ last.why \in {"frame_id", "request_id"})
                  <=> (\E v \in IdArgs : ~InByte(v))
           /\ last.exc \in {"none", "ValueError"}
           /\ last.op # "construct" => last.why \in {"", "frame_id", "request_id"}
           /\ last.why \in {"", "frame_id", "request_id", "target"}

\* C7's case: request_id was set to 255, and setting it to 256 then failed.
C7_Witness ==
    /\ last.op = "set_request_id"
    /\ last.arg = 256
    /\ last.exc = "ValueError"
    /\ pkts[last.slot].req_id = 255

Utf8Len(t) == Len(Utf8Encode(t))

\* The texts an operation was called with.
TextArgs ==
    IF last.op \in {"set_target", "set_path", "set_content_type"} THEN {last.arg}
    ELSE IF last.op # "construct" THEN {}
    ELSE IF last.kind = "DeviceRequest" THEN {last.arg.target}
    ELSE IF last.kind = "SendDataRequest" THEN {last.arg.path, last.arg.content_type}
    ELSE {}

TextFields(p) ==
    IF p.kind = "DeviceRequest" THEN {p.target}
    ELSE IF p.kind = "SendDataRequest" THEN {p.path, p.content_type}
    ELSE {}

\* C8: constructing with or setting target, path or content_type to a text of
\* more than 255 UTF-8 bytes fails (ValueError), a text of at most 255 bytes is
\* accepted, and every text field of every packet is at most 255 UTF-8 bytes.
C8_TextLength ==
    /\ \A s \in Slots : \A t \in TextFields(pkts[s]) :
           ~IsNone(t) => Utf8Len(Val(t)) <= 255
    /\ (\E t \in TextArgs : ~IsNone(t) /\ Utf8Len(Val(t)) > 255)
           => last.exc = "ValueError"
    /\ (\A t \in TextArgs : IsNone(t) \/ Utf8Len(Val(t)) <= 255)
           => last.why \notin {"target", "path", "content_type"}

-----------------------------------------------------------------------------
(* Ownership of payloads: two packet variables, the caller's bytearrays, the  *)
(* payload constructors, getters and setters                                  *)

\* Contents of the caller's bytearrays: empty or one byte.
OwnData == {<<>>, <<0>>}

OwnConstruct ==
    \E s \in Slots, d \in PayloadArgs :
        /\ pkts[s] = NoPacket
        /\ \/ NewDeviceRequest(s, 1, None, d, "API_MODE")
           \/ NewDeviceResponse(s, 1, 1, d, "API_MODE")
           \/ NewSendDataRequest(s, 1, None, None, SendDataRequestOptions_get(0), d,
                                 "API_MODE")

NextOwn ==
    \/ \E d \in OwnData : NewBuffer(d)
    \/ \E b \in hold, d \in OwnData : MutateBuffer(b, d)
    \/ OwnConstruct
    \/ \E s \in Slots, d \in PayloadArgs : SetPayload(s, d)
    \/ \E s \in Slots : GetPayload(s)

SpecOwn == Init /\ [][NextOwn]_vars

\* What a caller can observe of the packet in slot s: its fields and payload
\* content, and its encoding.
Observed(s) ==
    IF IsPacket(pkts[s])
    THEN <<View(pkts[s], heap), output(pkts[s], heap)>>
    ELSE <<>>

\* C9: a packet keeps its own copy of the payload passed to its constructor or
\* payload setter: no change the caller makes to a bytearray changes a packet's
\* payload or encoding, and no two packets share a bytearray.
C9_InputOwnership ==
    /\ [](\A s, t \in Slots :
              (s # t /\ IsPacket(pkts[s]) /\ IsPacket(pkts[t])
                     /\ ~IsNone(PayloadRef(pkts[s])))
                  => PayloadRef(pkts[s]) # PayloadRef(pkts[t]))
    /\ [][last'.op = "mutate" => \A s \in Slots : Observed(s)' = Observed(s)]_vars

\* C10: a payload getter returns None for an absent payload and otherwise a new
\* bytearray equal to the payload, leaving the packet as it is; changing a
\* bytearray a getter of a packet returned never changes that packet's payload
\* or encoding.
C10_OutputOwnership ==
    [][ /\ last'.op = "get_payload" =>
            \A s \in Slots : s = last'.slot =>
                LET ref == PayloadRef(pkts[s])
                IN  /\ pkts' = pkts
                    /\ Observed(s)' = Observed(s)
                    /\ IsNone(ref) <=> IsNone(last'.arg)
                    /\ ~IsNone(ref) =>
                           /\ Val(last'.arg) \notin 1..Len(heap)
                           /\ heap'[Val(last'.arg)] = heap[Val(ref)]
        /\ last'.op = "mutate" =>
            \A g \in got : g[2] = last'.arg => Observed(g[1])' = Observed(g[1])
      ]_vars

\* C10's case: the caller has changed a bytearray that a getter of a packet
\* returned, and the packet's payload is not what the bytearray now holds.
C10_Witness ==
    /\ last.op = "mutate"
    /\ \E g \in got :
           /\ g[2] = last.arg
           /\ IsPacket(pkts[g[1]])
           /\ ~IsNone(PayloadRef(pkts[g[1]]))
           /\ heap[Val(PayloadRef(pkts[g[1]]))] # heap[g[2]]

-----------------------------------------------------------------------------
(* Failed set operations, checked under Spec *)

\* What a caller can observe of packet p over heap h: fields, payload content
\* and encoding.
Seen(p, h) == IF IsPacket(p) THEN <<View(p, h), output(p, h)>> ELSE <<>>

\* The value a validating setter was called with is one it must refuse.
RefusedValue ==
    \/ last.op = "set_request_id" /\ ~InByte(last.arg)
    \/ last.op = "set_target" /\ ~IsNone(last.arg) /\ Len(Val(last.arg)) > 255

\* C11: a set operation that fails validation (request_id outside 0..255,
\* target longer than 255) raises and leaves the packet as it was:
\* every field, the payload and the encoding are the same as before the call.
C11_FailedSetKeepsPacket ==
    [][ ( /\ last'.op \in {"set_request_id", "set_target"}
          /\ (last'.exc # "none" \/ RefusedValue') )
        => /\ last'.exc = "ValueError"
           /\ pkts' = pkts
           /\ heap' = heap
           /\ \A s \in Slots : Seen(pkts'[s], heap') = Seen(pkts[s], heap)
      ]_vars

\* C11's case: the target was set to "a" before, and setting it to a text of
\* 256 characters has failed.
C11_Witness ==
    /\ last.op = "set_target"
    /\ last.exc = "ValueError"
    /\ ~IsNone(last.arg)
    /\ Len(Val(last.arg)) = 256
    /\ pkts[last.slot].target = Some(<<97>>)

-----------------------------------------------------------------------------
(* Encoding after construction and set operations: the field interface on     *)
(* slot 1, then output()                                                       *)

\* A str Python holds but UTF-8 cannot encode: one lone surrogate.
LoneSurrogateTexts == {Some(<<55296>>)}

\* Fields are set before the packet is encoded; output() ends the run when it
\* returns a frame.
EncodeSet ==
    /\ raw = <<>>
    /\ \/ FieldConstruct
       \/ FieldSet
       \/ \E t \in LoneSurrogateTexts : SetTarget(1, t)
       \/ \E t \in LoneSurrogateTexts : SetPath(1, t)
       \/ \E t \in LoneSurrogateTexts : SetContentType(1, t)

EncodeOutput ==
    /\ raw = <<>>
    /\ Output(1)

NextEncode == EncodeSet \/ EncodeOutput

SpecEncode == Init /\ [][NextEncode]_vars

\* UTF-8 bytes of an optional text; none when it is absent.
TextBytes(t) == IF IsNone(t) THEN 0 ELSE Utf8Len(Val(t))

PayloadBytes(p, h) == IF IsNone(PayloadRef(p)) THEN 0 ELSE Len(h[Val(PayloadRef(p))])

\* The length of packet p's frame when every length prefix is one byte: the
\* envelope and fixed fields (the kind's least frame), the texts, the payload.
OnePrefixFrameLen(p, h) ==
    MinPacketLength(p.kind) + PayloadBytes(p, h)
        + (IF p.kind = "DeviceRequest" THEN TextBytes(p.target)
           ELSE IF p.kind = "SendDataRequest"
           THEN TextBytes(p.path) + TextBytes(p.content_type)
           ELSE 0)

\* C12: output() of a packet that was constructed and then changed by set
\* operations that succeeded returns a frame, never raises, and every length
\* prefix in the frame is one byte.
C12_EncodeTotal ==
    last.op = "output" =>
        /\ last.exc = "none"
        /\ Len(raw) = OnePrefixFrameLen(pkts[last.slot], heap)

-----------------------------------------------------------------------------
(* More properties of the codec, checked under SpecCodec *)

\* C13: a text field (target, path, content_type) whose length prefix is 0
\* decodes to absent (None), not to the empty text.
C13_ZeroLengthIsAbsent ==
    (Decoded /\ last.exc = "none") =>
        LET p == pkts[last.slot]
        IN  /\ (last.kind = "DeviceRequest" /\ At(raw, 7) = 0) => IsNone(p.target)
            /\ (last.kind = "SendDataRequest" /\ At(raw, 5) = 0) => IsNone(p.path)
            /\ (last.kind = "SendDataRequest" /\ At(raw, 6 + At(raw, 5)) = 0)
                   => IsNone(p.content_type)

\* The code-backed field of a packet: error of a FrameError, options of a
\* SendDataRequest, status of the status kinds.
CodeOf(p) ==
    CASE p.kind = "FrameError" -> p.frame_error
      [] p.kind = "SendDataRequest" -> p.opts
      [] OTHER -> p.status

\* C15: create_packet of every kind, called with an operating mode other than
\* API or escaped API, raises InvalidOperatingModeException and makes no
\* packet, whatever the frame: the mode is looked at before the envelope and
\* before the frame type.
C15_ModeCheckFirst ==
    (Decoded /\ last.arg \notin SupportedModes) =>
        /\ last.exc = "InvalidOperatingModeException"
        /\ pkts[last.slot] = NoPacket

\* A frame with an unsound envelope met an unsupported mode.
C15_Witness ==
    /\ Decoded
    /\ last.arg = "AT_MODE"
    /\ last.kind = "FrameError"
    /\ check_api_packet(raw, MinPacketLength(last.kind)) # ""
    /\ last.exc = "InvalidOperatingModeException"

\* A sound frame of another type met an unsupported mode.
C15_WitnessOtherType ==
    /\ Decoded
    /\ last.arg = "AT_MODE"
    /\ check_api_packet(raw, MinPacketLength(last.kind)) = ""
    /\ At(raw, 3) # FrameTypeCode(last.kind)
    /\ last.exc = "InvalidOperatingModeException"


\* C16: in the frame output() makes for a DeviceRequest or a SendDataRequest,
\* each length prefix is the number of UTF-8 bytes of the text that follows
\* it, so the next field starts where the prefix says.
C16_PrefixCountsBytes ==
    (last.op = "output" /\ last.exc = "none") =>
        LET p == pkts[last.slot]
        IN  /\ p.kind = "DeviceRequest" => At(raw, 7) = TextBytes(p.target)
            /\ p.kind = "SendDataRequest" =>
                   /\ At(raw, 5) = TextBytes(p.path)
                   /\ At(raw, 6 + TextBytes(p.path)) = TextBytes(p.content_type)


\* The UTF-8 bytes of an optional text and the bytes of an optional payload;
\* nothing when absent.
TextOf(t) == IF IsNone(t) THEN <<>> ELSE Utf8Encode(Val(t))

PayloadOf(p, h) == IF IsNone(PayloadRef(p)) THEN <<>> ELSE h[Val(PayloadRef(p))]

\* The kind's fields in frame r: what lies between the frame type, or the
\* frame id when the kind has one, and the checksum.
FieldsOf(kind, r) == Slice(r, IF needs_id(kind) THEN 5 ELSE 4, Len(r) - 1)

\* C17: the frame output() makes carries the kind's fields in the order of the
\* layout table, the reserved positions as 0: DeviceRequest = request_id, 0, 0,
\* target_len, target, payload; DeviceResponse = request_id, 0, payload;
\* SendDataRequest = path_len, path, ct_len, content_type, 0, options code,
\* payload; the other kinds = the code byte; an absent payload adds nothing.
\* (Which number a length prefix holds is C16's matter: here it is one byte.)
C17_EncodeLayout ==
    (last.op = "output" /\ last.exc = "none") =>
        LET p == pkts[last.slot]
        IN  FieldsOf(p.kind, raw) =
                CASE p.kind = "DeviceRequest" ->
                         <<p.req_id, 0, 0, At(raw, 7)>> \o TextOf(p.target)
                             \o PayloadOf(p, heap)
                  [] p.kind = "DeviceResponse" ->
                         <<p.req_id, 0>> \o PayloadOf(p, heap)
                  [] p.kind = "SendDataRequest" ->
                         <<At(raw, 5)>> \o TextOf(p.path)
                             \o <<At(raw, 6 + TextBytes(p.path))>>
                             \o TextOf(p.content_type)
                             \o <<0, p.opts.code>> \o PayloadOf(p, heap)
                  [] OTHER -> <<CodeOf(p).code>>

C17_Witness ==
    /\ last.op = "output"
    /\ last.exc = "none"
    /\ last.kind = "SendDataRequest"
    /\ pkts[last.slot].path = Some(<<97, 98>>)
    /\ pkts[last.slot].content_type = Some(<<97>>)
    /\ PayloadOf(pkts[last.slot], heap) = <<0, 255>>
    /\ FieldsOf("SendDataRequest", raw) = <<2, 97, 98, 1, 97, 0, 3, 0, 255>>


\* C18: a SendDataRequest decode that succeeds has taken its fields from the
\* frame left to right: with p the byte at offset 5 and c the byte at offset
\* 6 + p, path is the p bytes after p, content_type the c bytes after c, the
\* next byte (transport) is passed over whatever it holds, the byte after it
\* is the options code, and the payload is every byte from there to the
\* checksum, the checksum left out.
C18_SendDataRequestOffsets ==
    (Decoded /\ last.kind = "SendDataRequest" /\ last.exc = "none") =>
        LET q == pkts[last.slot]
            p == At(raw, 5)
            c == At(raw, 6 + p)
        IN  /\ ~IsNone(q.path)
            /\ Utf8Encode(Val(q.path)) = [i \in 1..p |-> raw[6 + i]]
            /\ ~IsNone(q.content_type)
            /\ Utf8Encode(Val(q.content_type)) = [i \in 1..c |-> raw[7 + p + i]]
            /\ q.transport = 0
            /\ q.opts.code = At(raw, 8 + p + c)
            /\ PayloadOf(q, heap)
                   = [i \in 1..Max(Len(raw) - 1 - (9 + p + c), 0) |-> raw[9 + p + c + i]]

\* Non-empty path, content type and payload were found at their offsets.
C18_Witness ==
    /\ Decoded
    /\ last.kind = "SendDataRequest"
    /\ last.exc = "none"
    /\ At(raw, 5) = 2
    /\ At(raw, 8) = 1
    /\ pkts[last.slot].path = Some(<<97, 98>>)
    /\ pkts[last.slot].content_type = Some(<<97>>)
    /\ pkts[last.slot].opts.code = 3
    /\ PayloadOf(pkts[last.slot], heap) = <<0, 255>>

\* A transport byte that is not 0 did not stop the decode.
C18_WitnessTransport ==
    /\ Decoded
    /\ last.kind = "SendDataRequest"
    /\ last.exc = "none"
    /\ At(raw, 7 + At(raw, 5) + At(raw, 6 + At(raw, 5))) # 0


\* A text is absent or holds only characters that UTF-8 writes as one byte.
AsciiText(t) == IsNone(t) \/ \A i \in 1..Len(Val(t)) : Val(t)[i] < 128

AsciiTexts(p) ==
    CASE p.kind = "DeviceRequest" -> AsciiText(p.target)
      [] p.kind = "SendDataRequest" -> AsciiText(p.path) /\ AsciiText(p.content_type)
      [] OTHER -> TRUE

\* C19: for a DeviceRequest, DeviceResponse or SendDataRequest built from
\* accepted values with ASCII text of at most 255 characters, decoding its
\* frame succeeds and encoding the decoded packet gives the same frame, byte
\* for byte, also where the decoded packet holds an empty text or payload in
\* place of an absent one.
C19_ReencodeStable ==
    (DecodedOwnOutput /\ last.kind \in PayloadKinds /\ AsciiTexts(pkts[src.slot])) =>
        /\ last.exc = "none"
        /\ output(pkts[last.slot], heap) = Ok(raw)

\* The decoded packet differs from the one encoded (the absent target came
\* back empty, the empty payload came back absent) and still encodes to the
\* same frame.
C19_Witness ==
    /\ DecodedOwnOutput
    /\ last.kind = "DeviceRequest"
    /\ last.exc = "none"
    /\ IsNone(pkts[src.slot].target)
    /\ ~IsNone(pkts[src.slot].req_data)
    /\ pkts[last.slot].target = Some(<<>>)
    /\ IsNone(pkts[last.slot].req_data)
    /\ output(pkts[last.slot], heap) = Ok(raw)

\* The same for the longest text.
C19_WitnessLongest ==
    /\ DecodedOwnOutput
    /\ last.kind = "SendDataRequest"
    /\ last.exc = "none"
    /\ pkts[src.slot].path = Some(Repeat(97, 255))
    /\ output(pkts[last.slot], heap) = Ok(raw)


=============================================================================
